---- MODULE Spec2Model ----
(***************************************************************************)
(* Fall-Analysis-App: the UI state shell (App.tsx), the capture component  *)
(* in its four variants (components/CameraInput.tsx), the analysis client  *)
(* in its two proxy-calling variants (services/geminiService.ts and the    *)
(* multi-image client) and the proxy handler in its two variants           *)
(* (api/analyze.js, server.js).                                            *)
(*                                                                         *)
(* Strings are sequences of text fragments. Every literal of the source    *)
(* is cut so that each occurrence of a substring some includes() call      *)
(* looks for is a fragment of its own; s.includes(m) is then "m is a       *)
(* fragment of s". Non-ASCII literals are written as an ASCII gloss, the   *)
(* searched markers as their code points.                                  *)
(***************************************************************************)
EXTENDS Integers, Sequences, FiniteSets, TLC

VARIABLES
    \* ---- configuration of the build under analysis
    variant,        \* which CameraInput variant is mounted by App
    proxyKind,      \* which proxy serves the endpoint
    hasMediaDevices, \* the browser offers navigator.mediaDevices.getUserMedia
    \* ---- App.tsx state
    appState, analysis, errorMsg, currentImage,
    crashed,        \* a render threw and React unmounted the tree
    \* ---- CameraInput state of the mounted instance
    isProcessing, isCameraOpen, facingMode, capturedImages, streamRef,
    alertMsg,       \* what window.alert showed during the last step, if anything
    \* ---- asynchronous work started by CameraInput instances
    reads,          \* pending FileReader / Image decodes
    gums,           \* pending getUserMedia calls
    streams,        \* every MediaStream handed out so far: "live" | "stopped"
    \* ---- HTTP requests issued by analyzeFallReport and not yet settled
    inflight,
    submissions,    \* number of calls of analyzeFallReport so far
    posts,          \* number of calls of fetch so far
    exchange,       \* the HTTP exchange that settled last, until the user resets
    \* ---- one invocation of the proxy handler (specification SpecProxy)
    env, req, pc, upstream, res, upstreamCalls, upstreamParts,
    resHeaders,     \* the headers set on the response of that invocation
    \* ---- one image passing through CameraInput (specification SpecImage)
    source,         \* the camera frame or decoded file: kind, w, h, and the
                    \* facing mode of the component when it was taken
    output          \* the image handed on: w, h, mirrored

appVars    == <<appState, analysis, errorMsg, currentImage, crashed>>
camVars    == <<isProcessing, isCameraOpen, facingMode, capturedImages, streamRef>>
asyncVars  == <<reads, gums, streams>>
netVars    == <<inflight, submissions, posts, exchange>>
cfgVars    == <<variant, proxyKind, hasMediaDevices>>
proxyVars  == <<env, req, pc, upstream, res, upstreamCalls, upstreamParts, resHeaders>>
imgVars    == <<source, output>>
vars       == <<cfgVars, appVars, camVars, alertMsg, asyncVars, netVars, proxyVars, imgVars>>

----------------------------------------------------------------------------
(* Bounds of the model *)

\* submissions (calls of analyzeFallReport) in one behaviour
MaxSubmissions == 2
\* file selections whose read is pending at the same time
MaxReads == 2
\* MediaStreams requested in one behaviour
MaxStreams == 2
\* files in one selection of the multi-image file picker
MaxFiles == 2
\* images in the staging list of the multi-image variant
MaxImages == 2

----------------------------------------------------------------------------
(* Strings and JavaScript values *)

\* String.prototype.includes for a searched marker
Includes(s, marker) == \E i \in 1..Len(s) : s[i] = marker

MK_API_KEY            == "API_KEY"
MK_429                == "429"
MK_RESOURCE_EXHAUSTED == "RESOURCE_EXHAUSTED"
\* App.tsx:39  the six Han characters "usage has reached the upper limit"
MK_QUOTA              == "U+7528 U+91CF U+5DF2 U+9054 U+4E0A U+9650"
\* App.tsx:41  "cannot connect" / "cannot find"
MK_CANNOT_CONNECT     == "U+7121 U+6CD5 U+9023 U+63A5"
MK_NOT_FOUND          == "U+627E U+4E0D U+5230"
\* App.tsx:43  "Vercel environment variable"
MK_VERCEL_ENV         == "Vercel U+74B0 U+5883 U+8B8A U+6578"
MK_FAILED_TO_FETCH    == "Failed to fetch"
MK_NETWORK_ERROR      == "NetworkError"

Undefined  == [t |-> "undefined"]
Null       == [t |-> "null"]
Str(s)     == [t |-> "string", s |-> s]
Arr(a)     == [t |-> "array", a |-> a]
Obj(keys)  == [t |-> "object", keys |-> keys]

\* JavaScript truthiness of the values the handlers test with !x and ||
Truthy(v) ==
    CASE v.t = "undefined" -> FALSE
      [] v.t = "null"      -> FALSE
      [] v.t = "string"    -> v.s # <<>>
      [] OTHER             -> TRUE

\* a || b
OrElse(a, b) == IF Truthy(a) THEN a ELSE b

\* a non-empty base64 JPEG payload
B64 == <<"/9j/4AAQ">>

----------------------------------------------------------------------------
(* The proxy handler: api/analyze.js (Vercel) and server.js (Express) *)

\* "vercel" is api/analyze.js, "express" is server.js; "multi" is the proxy
\* of the multi-image build, which the multi-image client posts to
ProxyKinds == {"vercel", "express", "multi"}
Methods    == {"POST", "OPTIONS", "GET", "PUT"}

\* values an environment variable can have: unset, set to '', set to a key
EnvValues == {Undefined, Str(<<>>), Str(<<"AIza-key">>)}
Envs      == [API_KEY : EnvValues, VITE_API_KEY : EnvValues,
              NEXT_PUBLIC_API_KEY : EnvValues]
NoEnv     == [API_KEY |-> Undefined, VITE_API_KEY |-> Undefined,
              NEXT_PUBLIC_API_KEY |-> Undefined]

\* JSON bodies a client can post: the two wire formats, and the same with
\* the payload field missing or empty
Bodies ==
    { [image |-> i, images |-> Undefined] : i \in {Undefined, Null, Str(<<>>), Str(B64)} }
      \cup
    { [image |-> Undefined, images |-> Arr(a)] : a \in {<<>>, <<B64>>, <<B64, B64>>} }

\* texts the generation API can return in response.text
ValidResultText ==
    <<"{", "detectedTextSummary", "possibleCauses", "preventionStrategies",
      "handoverNote", "}">>
UpstreamTexts ==
    { <<>>,                                         \* no text at all
      ValidResultText,
      <<"{", "detectedTextSummary", "}">>,          \* JSON of another shape
      <<"null">>,                                   \* JSON null
      <<"Sorry, I cannot read this image.">>,       \* prose instead of JSON
      <<"Error ", MK_429, ": quota">>,              \* prose quoting a status
      <<"{", "detectedTextSummary">> }              \* truncated JSON

\* messages of the errors generateContent can throw
UpstreamErrors ==
    { <<"got status: ", MK_429, " Too Many Requests">>,
      <<"{\"status\": \"", MK_RESOURCE_EXHAUSTED, "\"}">>,
      <<"fetch failed">>,
      <<"API key not valid. reason: ", MK_API_KEY, "_INVALID">>,
      <<>> }

\* what the awaited generateContent call does
UpstreamOutcomes ==
    { [throws |-> TRUE,  error |-> [name |-> "ApiError", message |-> m], text |-> <<>>]
        : m \in UpstreamErrors }
      \cup
    { [throws |-> FALSE, error |-> [name |-> "", message |-> <<>>], text |-> t]
        : t \in UpstreamTexts }

\* Error.prototype.toString(): name, or name + ": " + message
ErrorToString(error) ==
    IF error.message = <<>> THEN <<error.name>>
    ELSE <<error.name, ": ">> \o error.message

ResultKeys == {"detectedTextSummary", "possibleCauses", "preventionStrategies",
               "handoverNote"}

\* the texts JSON.parse accepts, in this alphabet of fragments
IsJson(text) ==
    \/ text = <<"null">>
    \/ /\ Len(text) >= 2
       /\ text[1] = "{"
       /\ text[Len(text)] = "}"
       /\ \A i \in 2..(Len(text) - 1) : text[i] \in ResultKeys

\* JSON.parse: the value, or the SyntaxError it throws. V8 quotes the
\* offending source text in the message ("Unexpected token 'S', "Sorry..."
\* is not valid JSON") when quoting holds, and gives a position otherwise.
JsonParse(text, quoting) ==
    IF IsJson(text)
    THEN [ok |-> TRUE,
          value |-> IF text = <<"null">> THEN Null
                    ELSE Obj({text[i] : i \in 2..(Len(text) - 1)}),
          error |-> [name |-> "", message |-> <<>>]]
    ELSE [ok |-> FALSE, value |-> Undefined,
          error |-> [name |-> "SyntaxError",
                     message |-> IF quoting
                                 THEN <<"Unexpected token, \"">> \o text
                                        \o <<"\" is not valid JSON">>
                                 ELSE <<"Unexpected token in JSON at position 0">>]]

\* a response of the handler: status, JSON body, and the upstream call made
JsonError(status, msg) ==
    [status |-> status, body |-> Obj({"error"}), error |-> msg, value |-> Undefined]
JsonValue(status, v) ==
    [status |-> status, body |-> v, error |-> <<>>, value |-> v]
EmptyResponse(status) ==
    [status |-> status, body |-> Undefined, error |-> <<>>, value |-> Undefined]

\* a rewording of the message that loses the marker
MissingKeyMessage_NoMarker(kind) ==
    <<"Server configuration error: the API key is missing.">>

MissingKeyMessage(kind) ==
    IF kind # "express"
    THEN <<"Server configuration error: ", MK_API_KEY, " is missing in Vercel settings.">>
    ELSE <<"Server configuration error: ", MK_API_KEY, " is missing.">>

RateLimitMessage == <<"API usage limit exceeded. Please try again later.">>

\* the environment variables the handler reads, in order
ResolveApiKey(kind, e) ==
    IF kind # "express"
    THEN OrElse(OrElse(e.API_KEY, e.VITE_API_KEY), e.NEXT_PUBLIC_API_KEY)
    ELSE OrElse(e.API_KEY, e.VITE_API_KEY)

\* a payload check that tests the type only and lets '' through
PayloadPresent_EmptyAccepted(body) == body.image.t = "string"

\* const { image } = req.body; if (!image) ...
PayloadPresent(body) == Truthy(body.image)

\* the payload check of the multi-image proxy: a non-empty images array
PayloadPresentMulti(body) == body.images.t = "array" /\ body.images.a # <<>>

\* the image parts of the generateContent call (a text part follows them)
UpstreamCallParts(body) == <<body.image>>

\* the image parts the multi-image proxy attaches
UpstreamCallPartsMulti(body) == [i \in 1..Len(body.images.a) |-> Str(body.images.a[i])]

HasPayload(kind, body) ==
    IF kind = "multi" THEN PayloadPresentMulti(body) ELSE PayloadPresent(body)

PartsOf(kind, body) ==
    IF kind = "multi" THEN UpstreamCallPartsMulti(body) ELSE UpstreamCallParts(body)

\* a catch block that looks for "429" only
HandlerCatch_Only429(error) ==
    IF Includes(ErrorToString(error), MK_429)
    THEN [status |-> 429, body |-> Obj({"error"}),
          error |-> <<"API usage limit exceeded. Please try again later.">>,
          value |-> Undefined]
    ELSE [status |-> 500, body |-> Obj({"error"}),
          error |-> IF error.message # <<>> THEN error.message
                    ELSE <<"Internal Server Error">>,
          value |-> Undefined]

\* the catch block of the handler
HandlerCatch(error) ==
    LET errorStr == ErrorToString(error) IN
    IF Includes(errorStr, MK_429) \/ Includes(errorStr, MK_RESOURCE_EXHAUSTED)
    THEN JsonError(429, RateLimitMessage)
    ELSE JsonError(500, IF error.message # <<>> THEN error.message
                        ELSE <<"Internal Server Error">>)

\* a handler that sets no CORS header
CorsHeaders_None(kind, r) == {}

\* The CORS headers on the response, as <<name, value>> pairs. api/analyze.js
\* sets its four headers first thing, for every method; in server.js the
\* cors() middleware sets the wildcard origin on every response and the
\* allowed methods on a preflight.
CorsHeaders(kind, r) ==
    IF kind # "express"
    THEN { <<"Access-Control-Allow-Credentials", "true">>,
           <<"Access-Control-Allow-Origin", "*">>,
           <<"Access-Control-Allow-Methods", "GET,OPTIONS,PATCH,DELETE,POST,PUT">>,
           <<"Access-Control-Allow-Headers", "X-CSRF-Token, X-Requested-With, ...">> }
    ELSE { <<"Access-Control-Allow-Origin", "*">> }
           \cup (IF r.method = "OPTIONS"
                 THEN { <<"Access-Control-Allow-Methods", "GET,HEAD,PUT,PATCH,POST,DELETE">> }
                 ELSE {})

\* a handler that looks for the credential before it looks at the payload
HandlerBeforeAwait_KeyFirst(kind, r, e) ==
    IF r.method = "OPTIONS"
    THEN [done |-> TRUE, res |-> EmptyResponse(IF kind # "express" THEN 200 ELSE 204)]
    ELSE IF r.method # "POST"
    THEN [done |-> TRUE,
          res |-> IF kind # "express" THEN JsonError(405, <<"Method Not Allowed">>)
                  ELSE EmptyResponse(404)]
    ELSE IF ~Truthy(ResolveApiKey(kind, e))
    THEN [done |-> TRUE, res |-> JsonError(500, MissingKeyMessage(kind))]
    ELSE IF ~HasPayload(kind, r.body)
    THEN [done |-> TRUE, res |-> JsonError(400, <<"Image data is required">>)]
    ELSE [done |-> FALSE, res |-> EmptyResponse(0)]

\* The handler up to its await: either it has answered (done) or it has
\* issued the upstream call and waits for it.
\* Express routes only POST to the handler: the cors() middleware answers
\* OPTIONS with 204 and the router answers any other method with 404.
HandlerBeforeAwait(kind, r, e) ==
    IF r.method = "OPTIONS"
    THEN [done |-> TRUE, res |-> EmptyResponse(IF kind # "express" THEN 200 ELSE 204)]
    ELSE IF r.method # "POST"
    THEN [done |-> TRUE,
          res |-> IF kind # "express" THEN JsonError(405, <<"Method Not Allowed">>)
                  ELSE EmptyResponse(404)]
    ELSE IF ~HasPayload(kind, r.body)
    THEN [done |-> TRUE, res |-> JsonError(400, <<"Image data is required">>)]
    ELSE IF ~Truthy(ResolveApiKey(kind, e))
    THEN [done |-> TRUE, res |-> JsonError(500, MissingKeyMessage(kind))]
    ELSE [done |-> FALSE, res |-> EmptyResponse(0)]

\* The handler after its await, given what the upstream call did
HandlerAfterAwait(up, quoting) ==
    IF up.throws THEN HandlerCatch(up.error)
    ELSE IF up.text = <<>>
    THEN HandlerCatch([name |-> "Error", message |-> <<"No response from AI">>])
    ELSE LET p == JsonParse(up.text, quoting) IN
         IF p.ok THEN JsonValue(200, p.value) ELSE HandlerCatch(p.error)

\* one whole invocation, as the client sees it
Handler(kind, r, e, up, quoting) ==
    LET b == HandlerBeforeAwait(kind, r, e) IN
    IF b.done THEN b.res ELSE HandlerAfterAwait(up, quoting)

----------------------------------------------------------------------------
(* The clients: what analyzeFallReport posts *)

\* "single" is services/geminiService.ts, "multi" is the multi-image client
Clients == {"single", "multi"}

\* body: JSON.stringify({ image: base64Image }) / ({ images: base64Images })
ClientBody(client, payload) ==
    IF client = "single"
    THEN [image |-> Str(payload), images |-> Undefined]
    ELSE [image |-> Undefined, images |-> Arr(payload)]

NoRequest  == [method |-> "", body |-> [image |-> Undefined, images |-> Undefined]]
NoUpstream == [throws |-> FALSE, error |-> [name |-> "", message |-> <<>>], text |-> <<>>]

\* what fetch() gives the client: a response, or a rejection (transport error)
HttpResponse(r) == [rejected |-> FALSE, message |-> <<>>, res |-> r]
FetchRejected(m) == [rejected |-> TRUE, message |-> m, res |-> EmptyResponse(0)]

\* the message of the TypeError of a failed fetch, by browser engine
FetchErrorMessages ==
    { <<MK_FAILED_TO_FETCH>>,
      <<MK_NETWORK_ERROR, " when attempting to fetch resource.">>,
      <<"Load failed">> }

\* the answer of a host on which the route does not exist: 404, an HTML body
NotFoundResponse == EmptyResponse(404)

\* response.ok
ResponseOk(r) == r.status >= 200 /\ r.status <= 299

\* await response.json().catch(() => ({})), then .error
ErrorDataError(r) == IF r.body = Obj({"error"}) THEN Str(r.error) ELSE Undefined

\* geminiService.ts:23  warning sign, "free-tier API usage has reached the
\* upper limit, please try again later."
QuotaMessage == <<"(!) [free tier] API ", MK_QUOTA, "[, please retry later.]">>
\* geminiService.ts:27  "Server API Key misconfigured. Please check the
\* backend environment variables."  (API Key with a space; "backend", not
\* "Vercel", before the four characters for environment variables)
KeyMessage == <<"[server] API Key [misconfigured. Please check] backend U+74B0 U+5883 U+8B8A U+6578.">>
\* geminiService.ts:41  "Cannot connect to the backend server. ..."
ConnectMessage == <<MK_CANNOT_CONNECT, "[the backend server. Make sure 'node server.js' runs ...]">>
\* geminiService.ts:30  "server error (<status>)"
ServerErrorMessage(status) == <<"[server error] (", ToString(status), ")">>
\* the multi-image client: "analysis failed (<status>)"
AnalysisFailedMessage(status) == <<"[analysis failed] (", ToString(status), ")">>
\* the multi-image client: "network connection problem, ..."
NetworkProblemMessage == <<"[network connection problem, check the network and retry.]">>
\* what response.json() throws on a body that is no JSON
BodyNotJsonMessage == <<"Unexpected end of JSON input">>

Resolved(v) == [ok |-> TRUE,  value |-> v, message |-> <<>>]
Thrown(m)   == [ok |-> FALSE, value |-> Undefined, message |-> m]

\* services/geminiService.ts: the catch block of analyzeFallReport
SingleCatch(message) ==
    IF Includes(message, MK_FAILED_TO_FETCH) \/ Includes(message, MK_NETWORK_ERROR)
    THEN Thrown(ConnectMessage)
    ELSE Thrown(message)

\* services/geminiService.ts: analyzeFallReport, from the settled fetch on
AnalyzeSingle(http) ==
    IF http.rejected THEN SingleCatch(http.message)
    ELSE IF ~ResponseOk(http.res)
    THEN LET e == ErrorDataError(http.res) IN
         IF http.res.status = 429 THEN SingleCatch(QuotaMessage)
         ELSE IF http.res.status = 500 /\ e.t = "string" /\ Includes(e.s, MK_API_KEY)
         THEN SingleCatch(KeyMessage)
         ELSE SingleCatch(IF Truthy(e) THEN e.s ELSE ServerErrorMessage(http.res.status))
    ELSE IF http.res.body = Undefined THEN SingleCatch(BodyNotJsonMessage)
    ELSE Resolved(http.res.value)

\* the multi-image client: analyzeFallReport, from the settled fetch on
AnalyzeMulti(http) ==
    LET rethrow(m) == Thrown(IF m # <<>> THEN m ELSE NetworkProblemMessage) IN
    IF http.rejected THEN rethrow(http.message)
    ELSE IF ~ResponseOk(http.res)
    THEN LET e == ErrorDataError(http.res) IN
         rethrow(IF Truthy(e) THEN e.s ELSE AnalysisFailedMessage(http.res.status))
    ELSE IF http.res.body = Undefined THEN rethrow(BodyNotJsonMessage)
    ELSE Resolved(http.res.value)

AnalyzeFallReport(client, http) ==
    IF client = "single" THEN AnalyzeSingle(http) ELSE AnalyzeMulti(http)

----------------------------------------------------------------------------
(* State of the parts that a specification leaves alone *)

NoAlert == ""

NoExchange ==
    [client |-> "", called |-> FALSE, upstream |-> NoUpstream,
     http |-> HttpResponse(EmptyResponse(0))]

UiIdle ==
    /\ appState = "IDLE" /\ analysis = Null /\ errorMsg = <<>> /\ currentImage = Null
    /\ crashed = FALSE
    /\ isProcessing = FALSE /\ isCameraOpen = FALSE /\ facingMode = "environment"
    /\ capturedImages = <<>> /\ streamRef = 0
    /\ alertMsg = NoAlert
    /\ reads = <<>> /\ gums = <<>> /\ streams = <<>>
    /\ inflight = <<>> /\ submissions = 0 /\ posts = 0
    /\ exchange = NoExchange

NoSource == [kind |-> "none", w |-> 0, h |-> 0, facing |-> "environment"]
NoImage == [kind |-> "none", w |-> 0, h |-> 0, mirrored |-> FALSE]

ImgIdle == source = NoSource /\ output = NoImage

ProxyIdle ==
    /\ env = NoEnv /\ req = NoRequest /\ pc = "idle" /\ upstream = NoUpstream
    /\ res = EmptyResponse(0) /\ upstreamCalls = 0 /\ upstreamParts = <<>>
    /\ resHeaders = {}

----------------------------------------------------------------------------
(* The UI: App.tsx and the mounted CameraInput *)

\* the CameraInput variants of components/CameraInput.tsx, oldest last:
\* "compress" (lines 1-127), "multi" (129-265), "camera" (267-547),
\* "passthrough" (549-616)
Variants == {"compress", "multi", "camera", "passthrough"}

\* the client the build with this CameraInput calls
ClientOf(v) == IF v = "multi" THEN "multi" ELSE "single"

HasCamera(v) == v \in {"multi", "camera"}

Remove(seq, i) == SubSeq(seq, 1, i - 1) \o SubSeq(seq, i + 1, Len(seq))

\* App.tsx:39-43
IsRateLimit(msg) == Includes(msg, MK_QUOTA) \/ Includes(msg, MK_RESOURCE_EXHAUSTED)
IsConnectionError(msg) == Includes(msg, MK_CANNOT_CONNECT) \/ Includes(msg, MK_NOT_FOUND)
IsEnvError(msg) == Includes(msg, MK_VERCEL_ENV) \/ Includes(msg, MK_API_KEY)

\* App.tsx:28  "Analysis failed, check the network or the photo and retry."
FallbackMessage == <<"[analysis failed, check the network or the photo, then retry.]">>

\* the texts CameraInput hands to window.alert
\* CameraInput.tsx:71 ("compress") and :427 ("camera")
FileFailedAlert(v) ==
    IF v = "compress" THEN "[image processing failed, retry.]"
    ELSE "[image processing failed.]"
\* :166
MultiCameraAlert == "[cannot open the camera, try choosing from the album.]"
\* :301
UnsupportedAlert ==
    "[your browser has no live camera, use choose-from-album. (the camera needs HTTPS)]"
\* :329
PermissionAlert == "[cannot open the camera: allow the browser to use the camera.]"
\* :331
HttpsAlert == "[cannot open the camera: browsers require HTTPS for it. deploy to Vercel.]"
\* :333
CameraFailedAlert == "[cannot open the camera, try choose-from-album.]"
\* :395
NotReadyAlert == "[the camera is not ready yet, try again later.]"
\* :405
CaptureFailedAlert == "[capture failed, retry.]"

\* the names of the errors getUserMedia rejects with
GumErrors == {"NotAllowedError", "NotFoundError"}

\* the alert of startCamera's catch block; secureOrigin is false when the
\* page is served neither over https nor from localhost
CameraErrorAlert(v, err, secureOrigin) ==
    IF v = "multi" THEN MultiCameraAlert
    ELSE IF err = "NotAllowedError" THEN PermissionAlert
    ELSE IF ~secureOrigin THEN HttpsAlert
    ELSE CameraFailedAlert

\* App.tsx:65-76: CameraInput is rendered in IDLE only
Mounted == appState = "IDLE" /\ ~crashed

\* the imageUrls prop AnalysisResult receives: App.tsx passes imageUrl, so
\* the prop is undefined; the multi-image build passes the list of images
ImageUrlsProp(v, image) == IF v = "multi" THEN image ELSE Undefined

\* AnalysisResult.tsx: the render reads imageUrls.length, analysis
\* .possibleCauses.map and .preventionStrategies.map; each throws a
\* TypeError on undefined
AnalysisResultThrows(imageUrls, a) ==
    \/ imageUrls = Undefined
    \/ a.t # "object"
    \/ "possibleCauses" \notin a.keys
    \/ "preventionStrategies" \notin a.keys

\* App.tsx:164  appState === SUCCESS && analysis && <AnalysisResult .../>
RenderThrows(v, state, a, image) ==
    state = "SUCCESS" /\ Truthy(a) /\ AnalysisResultThrows(ImageUrlsProp(v, image), a)

\* stopCamera: the tracks of the stream in streamRef are stopped
StopTracks(ss, ref) == IF ref = 0 THEN ss ELSE [ss EXCEPT ![ref] = "stopped"]

MarkStale(q) == [i \in 1..Len(q) |-> [q[i] EXCEPT !.stale = TRUE]]

\* CameraInput leaves the screen because appState leaves IDLE: the "camera"
\* variant has an unmount effect that calls stopCamera, the other variants
\* have none; the callbacks of the work the instance started keep running
\* against the dead instance, and the next instance starts from its initial
\* state. readsLeft is reads without the read whose callback is running.
UnmountCameraInput(readsLeft) ==
    /\ streams' = IF variant = "camera" THEN StopTracks(streams, streamRef) ELSE streams
    /\ reads' = MarkStale(readsLeft)
    /\ gums' = MarkStale(gums)
    /\ isProcessing' = FALSE /\ isCameraOpen' = FALSE
    /\ facingMode' = "environment" /\ capturedImages' = <<>>
    /\ streamRef' = 0

\* App.handleImageSelected up to its await: the state is set and
\* analyzeFallReport issues its POST. Leaving IDLE unmounts CameraInput: the
\* "camera" variant has an unmount effect that calls stopCamera, the other
\* variants have none; the callbacks of the work the instance started keep
\* running against the dead instance. readsLeft is reads without the read
\* whose callback is calling.
HandleImageSelected(payload, readsLeft) ==
    /\ submissions < MaxSubmissions
    /\ submissions' = submissions + 1
    /\ posts' = posts + 1
    /\ inflight' = Append(inflight, [client |-> ClientOf(variant),
                                     body |-> ClientBody(ClientOf(variant), payload)])
    /\ UNCHANGED exchange
    /\ alertMsg' = NoAlert
    /\ IF crashed
       THEN UNCHANGED <<appVars, camVars, gums, streams>> /\ reads' = readsLeft
       ELSE /\ appState' = "ANALYZING"
            /\ currentImage' = IF variant = "multi" THEN Arr(payload) ELSE Str(payload)
            /\ errorMsg' = <<>>
            /\ UNCHANGED <<analysis, crashed>>
            /\ IF Mounted
               THEN UnmountCameraInput(readsLeft)
               ELSE /\ reads' = readsLeft
                    /\ UNCHANGED <<camVars, gums, streams>>

\* a reset that keeps the last result
HandleReset_KeepsAnalysis ==
    /\ ~crashed
    /\ \/ appState = "ERROR"
       \/ appState = "SUCCESS" /\ Truthy(analysis)
    /\ appState' = "IDLE" /\ currentImage' = Null /\ errorMsg' = <<>>
    /\ exchange' = NoExchange
    /\ UNCHANGED <<analysis, crashed, cfgVars, camVars, asyncVars, inflight, submissions,
                   posts, proxyVars, imgVars>>
    /\ alertMsg' = NoAlert

\* App.handleReset, from the retry button of the Error view or the button of
\* a rendered AnalysisResult; CameraInput mounts afresh. Nothing of the
\* settled exchange is on screen any more.
HandleReset ==
    /\ ~crashed
    /\ \/ appState = "ERROR"
       \/ appState = "SUCCESS" /\ Truthy(analysis)
    /\ appState' = "IDLE" /\ analysis' = Null /\ currentImage' = Null /\ errorMsg' = <<>>
    /\ exchange' = NoExchange
    /\ UNCHANGED <<crashed, cfgVars, camVars, asyncVars, inflight, submissions, posts,
                   proxyVars, imgVars>>
    /\ alertMsg' = NoAlert

\* the configurations of the deployment a request can meet
ServedEnvs == {NoEnv, [NoEnv EXCEPT !.API_KEY = Str(<<"AIza-key">>)]}

\* one run of the deployed handler on a POST of body
ProxyExchange(kind, body, e, u, q) ==
    LET r == [method |-> "POST", body |-> body]
        called == ~HandlerBeforeAwait(kind, r, e).done
    IN [called |-> called,
        upstream |-> IF called THEN u ELSE NoUpstream,
        http |-> HttpResponse(Handler(kind, r, e, u, q))]

\* what can come back for a POST of body: the deployed handler runs, the
\* route does not exist on the host, or the transport fails
EndpointOutcomes(kind, body) ==
    { ProxyExchange(kind, body, e, u, q) :
        e \in ServedEnvs, u \in UpstreamOutcomes, q \in BOOLEAN }
      \cup
    { [called |-> FALSE, upstream |-> NoUpstream, http |-> HttpResponse(NotFoundResponse)] }
      \cup
    { [called |-> FALSE, upstream |-> NoUpstream, http |-> FetchRejected(m)]
        : m \in FetchErrorMessages }

\* the bodies the clients post in a session: one image, or a staged list
PostedBodies ==
    { ClientBody("single", B64) }
      \cup
    { ClientBody("multi", staged) :
        staged \in UNION { [1..n -> {B64, <<>>}] : n \in 1..MaxImages } }

\* EndpointOutcomes, tabulated
OutcomesOf == [kind \in ProxyKinds, body \in PostedBodies |-> EndpointOutcomes(kind, body)]

\* a client that posts again when a request fails
RequestSettles_RetryOnFailure(i) ==
    /\ \E x \in OutcomesOf[proxyKind, inflight[i].body] :
         /\ exchange' = [client |-> inflight[i].client, called |-> x.called,
                         upstream |-> x.upstream, http |-> x.http]
         /\ LET result == AnalyzeFallReport(inflight[i].client, x.http) IN
            IF result.ok
            THEN /\ inflight' = Remove(inflight, i)
                 /\ UNCHANGED <<appVars, posts>>
            ELSE /\ posts <= MaxSubmissions
                 /\ posts' = posts + 1
                 /\ UNCHANGED <<appVars, inflight>>
    /\ UNCHANGED <<submissions, cfgVars, camVars, asyncVars, proxyVars, imgVars>>
    /\ alertMsg' = NoAlert

\* a handler that swallows a failed request: the state stays as it is
RequestSettles_ErrorSwallowed(i) ==
    /\ \E x \in OutcomesOf[proxyKind, inflight[i].body] :
         /\ exchange' = [client |-> inflight[i].client, called |-> x.called,
                         upstream |-> x.upstream, http |-> x.http]
         /\ LET result == AnalyzeFallReport(inflight[i].client, x.http) IN
            IF crashed \/ ~result.ok THEN UNCHANGED appVars
            ELSE /\ analysis' = result.value
                 /\ appState' = "SUCCESS"
                 /\ crashed' = RenderThrows(variant, "SUCCESS", result.value, currentImage)
                 /\ UNCHANGED <<errorMsg, currentImage>>
    /\ IF Mounted THEN UnmountCameraInput(reads) ELSE UNCHANGED <<camVars, asyncVars>>
    /\ inflight' = Remove(inflight, i)
    /\ UNCHANGED <<submissions, posts, cfgVars, proxyVars, imgVars>>
    /\ alertMsg' = NoAlert

\* A request settles: the endpoint answers, analyzeFallReport maps the
\* outcome, and App.handleImageSelected continues after its await. When the
\* user has reset in the meantime, the state leaves IDLE under a mounted
\* CameraInput.
RequestSettles(i) ==
    /\ inflight' = Remove(inflight, i)
    /\ \E x \in OutcomesOf[proxyKind, inflight[i].body] :
         /\ exchange' = [client |-> inflight[i].client, called |-> x.called,
                         upstream |-> x.upstream, http |-> x.http]
         /\ LET result == AnalyzeFallReport(inflight[i].client, x.http) IN
            IF crashed THEN UNCHANGED appVars
            ELSE IF result.ok
            THEN /\ analysis' = result.value
                 /\ appState' = "SUCCESS"
                 /\ crashed' = RenderThrows(variant, "SUCCESS", result.value, currentImage)
                 /\ UNCHANGED <<errorMsg, currentImage>>
            ELSE /\ appState' = "ERROR"
                 /\ errorMsg' = IF result.message # <<>> THEN result.message
                                ELSE FallbackMessage
                 /\ UNCHANGED <<analysis, currentImage, crashed>>
    /\ IF Mounted THEN UnmountCameraInput(reads) ELSE UNCHANGED <<camVars, asyncVars>>
    /\ UNCHANGED <<submissions, posts, cfgVars, proxyVars, imgVars>>
    /\ alertMsg' = NoAlert

----------------------------------------------------------------------------
(* CameraInput: file selection *)

\* handleFileChange of the single-image variants: the user has picked a file
\* (the button is disabled while isCompressing / isProcessing in "compress"
\* and "camera"; "passthrough" keeps no such flag)
HandleFileChange ==
    /\ Mounted /\ variant \in {"compress", "camera", "passthrough"}
    /\ ~isCameraOpen
    /\ variant # "passthrough" => ~isProcessing
    /\ Len(reads) < MaxReads
    /\ reads' = Append(reads, [stale |-> FALSE, files |-> 1])
    /\ isProcessing' = (variant # "passthrough")
    /\ UNCHANGED <<isCameraOpen, facingMode, capturedImages, streamRef, gums, streams,
                   cfgVars, appVars, netVars, proxyVars, imgVars>>
    /\ alertMsg' = NoAlert

\* handleFiles of the multi-image variant: a selection of n files
HandleFiles ==
    /\ Mounted /\ variant = "multi"
    /\ ~isCameraOpen
    /\ Len(reads) < MaxReads
    /\ \E n \in 1..MaxFiles : reads' = Append(reads, [stale |-> FALSE, files |-> n])
    /\ isProcessing' = TRUE
    /\ UNCHANGED <<isCameraOpen, facingMode, capturedImages, streamRef, gums, streams,
                   cfgVars, appVars, netVars, proxyVars, imgVars>>
    /\ alertMsg' = NoAlert

\* reader.onload / img.onload of a single-image variant: the image is there
\* and goes to onImageSelected. In "compress" and "camera" the canvas may
\* give no context: alert, and finally the processing flag is cleared.
FileReadCompletes(i) ==
    /\ i \in 1..Len(reads) /\ variant \in {"compress", "camera", "passthrough"}
    /\ \E contextOk \in BOOLEAN :
         IF contextOk \/ variant = "passthrough"
         THEN /\ HandleImageSelected(B64, Remove(reads, i))
              /\ UNCHANGED <<cfgVars, proxyVars, imgVars>>
         ELSE /\ reads' = Remove(reads, i)
              /\ isProcessing' = IF reads[i].stale THEN isProcessing ELSE FALSE
              /\ alertMsg' = FileFailedAlert(variant)
              /\ UNCHANGED <<isCameraOpen, facingMode, capturedImages, streamRef, gums,
                             streams, cfgVars, appVars, netVars, proxyVars, imgVars>>

\* the read or the decode of a file fails. "compress" rejects, alerts and
\* clears isCompressing; "camera" and "multi" set no onerror handler, so the
\* callback chain ends there (and Promise.all of the batch never settles);
\* in "passthrough" onloadend runs with a null result and result.split throws.
FileReadFails(i) ==
    /\ i \in 1..Len(reads)
    /\ reads' = Remove(reads, i)
    /\ isProcessing' = IF variant = "compress" /\ ~reads[i].stale THEN FALSE
                       ELSE isProcessing
    /\ alertMsg' = IF variant = "compress" THEN FileFailedAlert(variant) ELSE NoAlert
    /\ UNCHANGED <<isCameraOpen, facingMode, capturedImages, streamRef, gums, streams,
                   cfgVars, appVars, netVars, proxyVars, imgVars>>

\* Promise.all of a batch of the multi-image variant resolves: every file
\* gave processImage's result, '' where the canvas gave no context; the
\* non-empty ones are appended and isProcessing is cleared
FileBatchCompletes(i) ==
    /\ i \in 1..Len(reads) /\ variant = "multi"
    /\ \E imgs \in [1..reads[i].files -> {B64, <<>>}] :
         LET kept == SelectSeq(imgs, LAMBDA img : img # <<>>) IN
         /\ Len(capturedImages) + Len(kept) <= MaxImages
         /\ capturedImages' = IF reads[i].stale THEN capturedImages
                              ELSE capturedImages \o kept
    /\ isProcessing' = IF reads[i].stale THEN isProcessing ELSE FALSE
    /\ reads' = Remove(reads, i)
    /\ UNCHANGED <<isCameraOpen, facingMode, streamRef, gums, streams,
                   cfgVars, appVars, netVars, proxyVars, imgVars>>
    /\ alertMsg' = NoAlert

\* a remove button that drops the last staged image, whichever was clicked
RemoveImage_DropsLast(i) ==
    /\ Mounted /\ variant = "multi" /\ ~isCameraOpen
    /\ i \in 1..Len(capturedImages)
    /\ capturedImages' = SubSeq(capturedImages, 1, Len(capturedImages) - 1)
    /\ UNCHANGED <<isProcessing, isCameraOpen, facingMode, streamRef, asyncVars,
                   cfgVars, appVars, netVars, proxyVars, imgVars>>
    /\ alertMsg' = NoAlert

\* the remove button of a staged image
RemoveImage(i) ==
    /\ Mounted /\ variant = "multi" /\ ~isCameraOpen
    /\ i \in 1..Len(capturedImages)
    /\ capturedImages' = Remove(capturedImages, i)
    /\ UNCHANGED <<isProcessing, isCameraOpen, facingMode, streamRef, asyncVars,
                   cfgVars, appVars, netVars, proxyVars, imgVars>>
    /\ alertMsg' = NoAlert

\* the Analyze button: onAnalyze(capturedImages)
Analyze ==
    /\ Mounted /\ variant = "multi" /\ ~isCameraOpen
    /\ capturedImages # <<>> /\ ~isProcessing
    /\ HandleImageSelected(capturedImages, reads)
    /\ UNCHANGED <<cfgVars, proxyVars, imgVars>>

----------------------------------------------------------------------------
(* CameraInput: the camera of the "multi" and "camera" variants *)

\* startCamera up to its await: stopCamera(), then getUserMedia is called
\* with the facing mode of the render. When the browser has no mediaDevices,
\* "camera" alerts and returns, and in "multi" the call throws a TypeError
\* that the catch block answers with its alert.
StartCameraFrom(facing) ==
    /\ streams' = StopTracks(streams, streamRef)
    /\ streamRef' = 0
    /\ isCameraOpen' = FALSE
    /\ IF hasMediaDevices
       THEN /\ Len(streams) + Len(gums) < MaxStreams
            /\ gums' = Append(gums, [stale |-> FALSE, facing |-> facing])
            /\ alertMsg' = NoAlert
       ELSE /\ gums' = gums
            /\ alertMsg' = IF variant = "multi" THEN MultiCameraAlert
                           ELSE UnsupportedAlert

\* the camera button of the selection view
StartCamera ==
    /\ Mounted /\ HasCamera(variant)
    /\ ~isCameraOpen
    /\ variant = "camera" => ~isProcessing
    /\ StartCameraFrom(facingMode)
    /\ UNCHANGED <<isProcessing, facingMode, capturedImages, reads,
                   cfgVars, appVars, netVars, proxyVars, imgVars>>

\* getUserMedia resolves with a new live stream: streamRef.current = stream,
\* setIsCameraOpen(true) (which does nothing on an unmounted instance, whose
\* ref nobody reads again)
GetUserMediaResolves(i) ==
    /\ i \in 1..Len(gums)
    /\ streams' = Append(streams, "live")
    /\ gums' = Remove(gums, i)
    /\ IF gums[i].stale
       THEN UNCHANGED <<streamRef, isCameraOpen>>
       ELSE streamRef' = Len(streams) + 1 /\ isCameraOpen' = TRUE
    /\ UNCHANGED <<isProcessing, facingMode, capturedImages, reads,
                   cfgVars, appVars, netVars, proxyVars, imgVars>>
    /\ alertMsg' = NoAlert

\* getUserMedia rejects with err: the catch block alerts, and that is all
GumRejected(i, err, secureOrigin) ==
    /\ i \in 1..Len(gums)
    /\ gums' = Remove(gums, i)
    /\ alertMsg' = CameraErrorAlert(variant, err, secureOrigin)
    /\ UNCHANGED <<camVars, reads, streams, cfgVars, appVars, netVars, proxyVars, imgVars>>

GetUserMediaRejects(i) ==
    \E err \in GumErrors, secureOrigin \in BOOLEAN : GumRejected(i, err, secureOrigin)

\* the cancel button of the camera view: stopCamera
StopCamera ==
    /\ Mounted /\ HasCamera(variant) /\ isCameraOpen
    /\ streams' = StopTracks(streams, streamRef)
    /\ streamRef' = 0
    /\ isCameraOpen' = FALSE
    /\ UNCHANGED <<isProcessing, facingMode, capturedImages, reads, gums,
                   cfgVars, appVars, netVars, proxyVars, imgVars>>
    /\ alertMsg' = NoAlert

\* toggleCamera and the facingMode effect it triggers: the camera view is
\* open, so startCamera runs with the new facing mode
ToggleCamera ==
    /\ Mounted /\ variant = "camera" /\ isCameraOpen
    /\ facingMode' = IF facingMode = "environment" THEN "user" ELSE "environment"
    /\ StartCameraFrom(facingMode')
    /\ UNCHANGED <<isProcessing, capturedImages, reads,
                   cfgVars, appVars, netVars, proxyVars, imgVars>>

\* handleCapture of "camera": with a frame and a canvas context the image is
\* made, stopCamera runs and onImageSelected gets the image (the unmount
\* that follows finds streamRef empty); without a frame, or without a
\* context, the handler alerts and leaves the camera open
HandleCapture ==
    /\ Mounted /\ variant = "camera" /\ isCameraOpen
    /\ \E got \in {"image", "noFrame", "noContext"} :
         IF got = "image"
         THEN HandleImageSelected(B64, reads)
         ELSE /\ alertMsg' = IF got = "noFrame" THEN NotReadyAlert
                             ELSE CaptureFailedAlert
              /\ UNCHANGED <<appVars, camVars, asyncVars, netVars>>
    /\ UNCHANGED <<cfgVars, proxyVars, imgVars>>

\* handleCapture of "multi": processImage's result, '' when the video has no
\* frame yet or the canvas gives no context, is appended; then stopCamera
HandleCaptureMulti ==
    /\ Mounted /\ variant = "multi" /\ isCameraOpen
    /\ Len(capturedImages) < MaxImages
    /\ \E base64 \in {B64, <<>>} : capturedImages' = Append(capturedImages, base64)
    /\ streams' = StopTracks(streams, streamRef)
    /\ streamRef' = 0
    /\ isCameraOpen' = FALSE
    /\ UNCHANGED <<isProcessing, facingMode, reads, gums,
                   cfgVars, appVars, netVars, proxyVars, imgVars>>
    /\ alertMsg' = NoAlert

----------------------------------------------------------------------------
(* Specification Spec: one UI session against one deployment *)

Init ==
    /\ variant \in Variants
    /\ proxyKind \in ProxyKinds
    /\ hasMediaDevices \in (IF HasCamera(variant) THEN BOOLEAN ELSE {TRUE})
    /\ UiIdle
    /\ ProxyIdle
    /\ ImgIdle

Next ==
    \/ HandleFileChange
    \/ HandleFiles
    \/ \E i \in 1..Len(reads) : FileReadCompletes(i)
    \/ \E i \in 1..Len(reads) : FileReadFails(i)
    \/ \E i \in 1..Len(reads) : FileBatchCompletes(i)
    \/ \E i \in 1..Len(capturedImages) : RemoveImage(i)
    \/ Analyze
    \/ StartCamera
    \/ \E i \in 1..Len(gums) : GetUserMediaResolves(i)
    \/ \E i \in 1..Len(gums) : GetUserMediaRejects(i)
    \/ StopCamera
    \/ ToggleCamera
    \/ HandleCapture
    \/ HandleCaptureMulti
    \/ HandleReset
    \/ \E i \in 1..Len(inflight) : RequestSettles(i)

Spec == Init /\ [][Next]_vars

\* the same session when every issued HTTP request eventually settles: fetch
\* resolves or rejects, and the callbacks of the promise run
SpecLive == Spec /\ WF_vars(\E i \in 1..Len(inflight) : RequestSettles(i))

----------------------------------------------------------------------------
(* Specification SpecProxy: invocations of the handler of one deployment *)

InitProxy ==
    /\ proxyKind \in ProxyKinds
    /\ env \in Envs
    /\ req = NoRequest /\ pc = "idle" /\ upstream = NoUpstream
    /\ res = EmptyResponse(0) /\ upstreamCalls = 0 /\ upstreamParts = <<>>
    /\ resHeaders = {}
    /\ variant = "compress" /\ hasMediaDevices = TRUE
    /\ UiIdle
    /\ ImgIdle

\* a request arrives and the handler runs to its first await or return
ProxyReceive ==
    /\ pc = "idle"
    /\ \E m \in Methods, b \in Bodies :
         LET r == [method |-> m, body |-> b]
             h == HandlerBeforeAwait(proxyKind, r, env)
         IN /\ req' = r
            /\ resHeaders' = CorsHeaders(proxyKind, r)
            /\ IF h.done
               THEN /\ res' = h.res
                    /\ pc' = "responded"
                    /\ UNCHANGED <<upstreamCalls, upstreamParts>>
               ELSE /\ res' = EmptyResponse(0)
                    /\ pc' = "awaiting"
                    /\ upstreamCalls' = upstreamCalls + 1
                    /\ upstreamParts' = PartsOf(proxyKind, b)
    /\ UNCHANGED <<env, upstream, cfgVars, appVars, camVars, asyncVars, netVars, imgVars>>
    /\ UNCHANGED alertMsg

\* generateContent settles and the handler runs to its end
ProxyUpstreamSettles ==
    /\ pc = "awaiting"
    /\ \E u \in UpstreamOutcomes, quoting \in BOOLEAN :
         /\ upstream' = u
         /\ res' = HandlerAfterAwait(u, quoting)
    /\ pc' = "responded"
    /\ UNCHANGED <<env, req, upstreamCalls, upstreamParts, resHeaders,
                   cfgVars, appVars, camVars, asyncVars, netVars, imgVars>>
    /\ UNCHANGED alertMsg

\* the handler is stateless: the next invocation starts afresh
ProxyDone ==
    /\ pc = "responded"
    /\ req' = NoRequest /\ pc' = "idle" /\ upstream' = NoUpstream
    /\ res' = EmptyResponse(0) /\ upstreamCalls' = 0 /\ upstreamParts' = <<>>
    /\ resHeaders' = {}
    /\ UNCHANGED <<env, cfgVars, appVars, camVars, asyncVars, netVars, imgVars>>
    /\ UNCHANGED alertMsg

NextProxy == ProxyReceive \/ ProxyUpstreamSettles \/ ProxyDone

SpecProxy == InitProxy /\ [][NextProxy]_vars

----------------------------------------------------------------------------
(* CameraInput: image normalisation *)

\* MAX_WIDTH = MAX_HEIGHT of compressImage and processImageToBase64
MAX_WIDTH == 1600
\* MAX_SIZE of processImage (multi-image variant)
MAX_SIZE == 1024

\* widths and heights of the frames and files tried: around both caps, and
\* pairs whose scaled edge is a whole number, a fraction, or less than one
Dims == {1, 2, 3, 537, 640, 1023, 1024, 1025, 1122, 1599, 1600, 1601, 1790,
         1920, 2048, 3000, 3200, 4032}

\* a scaling that clamps the longer edge and leaves the other edge alone
ScaledEdge_Unscaled(x, max, longer) == {x}

\* x *= max / longer, then canvas.width = x: the double is converted to an
\* unsigned long, which drops the fraction. The product of the two rounded
\* doubles can fall just short of a whole quotient (537 * (1600 / 1790) is
\* 479.99999999999994), and then the canvas gets one pixel less.
ScaledEdge(x, max, longer) ==
    LET q == (x * max) \div longer IN
    IF (x * max) % longer = 0 THEN {q, q - 1} ELSE {q}

\* compressImage ("compress") and processImageToBase64 ("camera"): the
\* sizes the canvas can get
ScaleToMax(w, h) ==
    IF w > h
    THEN IF w > MAX_WIDTH
         THEN { [w |-> MAX_WIDTH, h |-> hh] : hh \in ScaledEdge(h, MAX_WIDTH, w) }
         ELSE { [w |-> w, h |-> h] }
    ELSE IF h > MAX_WIDTH
         THEN { [w |-> ww, h |-> MAX_WIDTH] : ww \in ScaledEdge(w, MAX_WIDTH, h) }
         ELSE { [w |-> w, h |-> h] }

\* a normalisation that always fits the longer edge to the maximum
ProcessImage_AlwaysFit(w, h) ==
    IF w > h
    THEN { [w |-> MAX_SIZE, h |-> hh] : hh \in ScaledEdge(h, MAX_SIZE, w) }
    ELSE { [w |-> ww, h |-> MAX_SIZE] : ww \in ScaledEdge(w, MAX_SIZE, h) }

\* processImage ("multi")
ProcessImage(w, h) ==
    IF w > h /\ w > MAX_SIZE
    THEN { [w |-> MAX_SIZE, h |-> hh] : hh \in ScaledEdge(h, MAX_SIZE, w) }
    ELSE IF h > MAX_SIZE
    THEN { [w |-> ww, h |-> MAX_SIZE] : ww \in ScaledEdge(w, MAX_SIZE, h) }
    ELSE { [w |-> w, h |-> h] }

\* a normalisation without the mirror branch
Mirrors_Never(v, facing) == FALSE

\* whether the canvas is flipped before drawImage. Only processImageToBase64
\* has the branch; it reads the facingMode state, for frames and files alike
Mirrors(v, facing) == v = "camera" /\ facing = "user"

\* the images a variant can hand on for a source of w x h ("passthrough"
\* hands the file on as it was read)
Normalize(v, w, h, facing) ==
    LET sizes == CASE v = "multi"       -> ProcessImage(w, h)
                   [] v = "passthrough" -> { [w |-> w, h |-> h] }
                   [] OTHER             -> ScaleToMax(w, h)
    IN { [kind |-> "jpeg", w |-> s.w, h |-> s.h, mirrored |-> Mirrors(v, facing)]
           : s \in sizes }

----------------------------------------------------------------------------
(* Specification SpecImage: images passing through one CameraInput *)

InitImage ==
    /\ variant \in Variants
    /\ proxyKind = "vercel" /\ hasMediaDevices = TRUE
    /\ UiIdle
    /\ ProxyIdle
    /\ ImgIdle

\* the camera view opens (startCamera and its getUserMedia, in one step)
ImgOpenCamera ==
    /\ HasCamera(variant) /\ ~isCameraOpen
    /\ isCameraOpen' = TRUE
    /\ UNCHANGED <<isProcessing, facingMode, capturedImages, streamRef,
                   cfgVars, appVars, asyncVars, netVars, proxyVars, imgVars>>
    /\ UNCHANGED alertMsg

\* the cancel button of the camera view
ImgCloseCamera ==
    /\ isCameraOpen
    /\ isCameraOpen' = FALSE
    /\ UNCHANGED <<isProcessing, facingMode, capturedImages, streamRef,
                   cfgVars, appVars, asyncVars, netVars, proxyVars, imgVars>>
    /\ UNCHANGED alertMsg

\* toggleCamera: the facing mode flips and the camera restarts, or fails to
ImgToggleCamera ==
    /\ variant = "camera" /\ isCameraOpen
    /\ facingMode' = IF facingMode = "environment" THEN "user" ELSE "environment"
    /\ isCameraOpen' \in BOOLEAN
    /\ UNCHANGED <<isProcessing, capturedImages, streamRef,
                   cfgVars, appVars, asyncVars, netVars, proxyVars, imgVars>>
    /\ UNCHANGED alertMsg

\* handleCapture: the frame of the video goes through the variant's
\* normalisation and the camera view closes. In "camera" the image goes to
\* onImageSelected and the component is unmounted; the next one starts with
\* the initial facing mode.
ImgCapture ==
    /\ HasCamera(variant) /\ isCameraOpen
    /\ \E w \in Dims, h \in Dims :
         /\ source' = [kind |-> "frame", w |-> w, h |-> h, facing |-> facingMode]
         /\ output' \in Normalize(variant, w, h, facingMode)
    /\ isCameraOpen' = FALSE
    /\ facingMode' = IF variant = "camera" THEN "environment" ELSE facingMode
    /\ UNCHANGED <<isProcessing, capturedImages, streamRef,
                   cfgVars, appVars, asyncVars, netVars, proxyVars>>
    /\ UNCHANGED alertMsg

\* handleFileChange / handleFiles: a picked file is decoded and goes through
\* the variant's normalisation. The single-image variants hand it to
\* onImageSelected and are unmounted.
ImgPickFile ==
    /\ ~isCameraOpen
    /\ \E w \in Dims, h \in Dims :
         /\ source' = [kind |-> "file", w |-> w, h |-> h, facing |-> facingMode]
         /\ output' \in Normalize(variant, w, h, facingMode)
    /\ facingMode' = IF variant = "multi" THEN facingMode ELSE "environment"
    /\ UNCHANGED <<isProcessing, isCameraOpen, capturedImages, streamRef,
                   cfgVars, appVars, asyncVars, netVars, proxyVars>>
    /\ UNCHANGED alertMsg

NextImage ==
    \/ ImgOpenCamera
    \/ ImgCloseCamera
    \/ ImgToggleCamera
    \/ ImgCapture
    \/ ImgPickFile

SpecImage == InitImage /\ [][NextImage]_vars

----------------------------------------------------------------------------
(* Claims about the proxy handler, checked under SpecProxy *)

\* the handlers of this repository's source files
SourceProxy == proxyKind \in {"vercel", "express"}

\* the request carries no image in either wire format
NoImagePayload(body) ==
    /\ body.image \in {Undefined, Null, Str(<<>>)}
    /\ body.images \in {Undefined, Arr(<<>>)}

\* C4: a POST whose body carries no image payload (field absent or empty) is
\* answered with 400, and no call of the generation API is made for it.
C4_NoImageIs400 ==
    (pc # "idle" /\ req.method = "POST" /\ NoImagePayload(req.body))
        => /\ pc = "responded"
           /\ res.status = 400
           /\ upstreamCalls = 0

C4_Witness ==
    /\ pc = "responded" /\ req.method = "POST"
    /\ req.body.image = Str(<<>>)
    /\ res.status = 400 /\ upstreamCalls = 0

\* C5 (as claimed): a request {"images": [...]} with at least one non-empty
\* image, as the multi-image client sends it, passes the payload validation
\* of the proxy and leads to one upstream call carrying those images.
C5_MultiImageAccepted ==
    (/\ pc = "responded" /\ req.method = "POST"
     /\ \E imgs \in {<<B64>>, <<B64, B64>>} : req.body = ClientBody("multi", imgs)
     /\ Truthy(ResolveApiKey(proxyKind, env)))
        => /\ res.status # 400
           /\ upstreamCalls = 1
           /\ upstreamParts = [i \in 1..Len(req.body.images.a) |-> Str(req.body.images.a[i])]

\* none of the variables the deployed handler reads is set
NoCredential ==
    /\ env.API_KEY = Undefined
    /\ env.VITE_API_KEY = Undefined
    /\ proxyKind # "express" => env.NEXT_PUBLIC_API_KEY = Undefined

\* C6: a valid POST with no credential variable set is answered 500 with an
\* error string containing "API_KEY", and no upstream call is made.
C6_MissingKeyIs500 ==
    (pc # "idle" /\ req.method = "POST" /\ HasPayload(proxyKind, req.body) /\ NoCredential)
        => /\ pc = "responded"
           /\ res.status = 500
           /\ Includes(res.error, MK_API_KEY)
           /\ upstreamCalls = 0

C6_Witness ==
    /\ pc = "responded" /\ req.method = "POST" /\ SourceProxy
    /\ req.body.image = Str(B64) /\ NoCredential
    /\ res.status = 500 /\ Includes(res.error, MK_API_KEY)

HasRateLimitMarker(text) ==
    Includes(text, MK_429) \/ Includes(text, MK_RESOURCE_EXHAUSTED)

\* C9 (as claimed): for an upstream call that throws, the answer is 429 if
\* the error text has a rate-limit marker, and otherwise 500 with an error
\* field equal to the upstream error message.
C9_ErrorRelayedVerbatim ==
    (pc = "responded" /\ upstreamCalls = 1 /\ upstream.throws)
        => IF HasRateLimitMarker(upstream.error.message)
           THEN res.status = 429
           ELSE res.status = 500 /\ res.error = upstream.error.message

\* C9 (amended): ... otherwise 500 with an error field equal to the upstream
\* error message, or to 'Internal Server Error' when that message is empty.
C9_ErrorRelayed ==
    (pc = "responded" /\ upstreamCalls = 1 /\ upstream.throws)
        => IF HasRateLimitMarker(upstream.error.message)
           THEN res.status = 429
           ELSE /\ res.status = 500
                /\ upstream.error.message # <<>> => res.error = upstream.error.message
                /\ upstream.error.message = <<>> => res.error = <<"Internal Server Error">>

C9_Witness ==
    /\ pc = "responded" /\ upstreamCalls = 1 /\ upstream.throws /\ SourceProxy
    /\ upstream.error.message = <<"fetch failed">>
    /\ res.status = 500 /\ res.error = <<"fetch failed">>

----------------------------------------------------------------------------
(* Claims about the UI session, checked under Spec *)

AllowedTransitions ==
    { <<"IDLE", "ANALYZING">>, <<"ANALYZING", "SUCCESS">>, <<"ANALYZING", "ERROR">>,
      <<"SUCCESS", "IDLE">>, <<"ERROR", "IDLE">> }

\* C1 (as claimed): appState changes only along Idle->Analyzing,
\* Analyzing->Success, Analyzing->Error, Success->Idle and Error->Idle.
C1_OnlyAllowedTransitions ==
    [][appState' # appState => <<appState, appState'>> \in AllowedTransitions]_vars

\* C2 (as claimed): at most one analysis request is outstanding in every
\* reachable state of a UI session.
C2_AtMostOneInFlight == Len(inflight) <= 1

\* C3 (as claimed): every stream getUserMedia returned has its tracks
\* stopped on every exit path; a live stream is therefore always the one the
\* open camera view of the mounted component holds in streamRef.
C3_NoStreamLeftLive ==
    \A s \in 1..Len(streams) :
        streams[s] = "live" => (Mounted /\ isCameraOpen /\ streamRef = s)

\* a step in which a request settles while the React tree is alive
Settles == Len(inflight') < Len(inflight) /\ ~crashed

\* C7 (as claimed): when the proxy answers 500 with the missing-credential
\* marker, the UI ends in Error with the setup guidance shown (isEnvError
\* holds of the message the client produced).
C7_SetupGuidanceShown ==
    [][(/\ Settles
        /\ ~exchange'.http.rejected
        /\ exchange'.http.res.status = 500
        /\ Includes(exchange'.http.res.error, MK_API_KEY))
          => (appState' = "ERROR" /\ IsEnvError(errorMsg'))]_vars

\* C8 (as claimed): when the upstream call fails with a rate-limit error,
\* the proxy answers 429 and the UI ends in Error with the rate-limit copy
\* (isRateLimit), whichever client issued the request.
C8_RateLimitCopyShown ==
    [][(/\ Settles
        /\ exchange'.called /\ exchange'.upstream.throws
        /\ HasRateLimitMarker(exchange'.upstream.error.message))
          => (/\ exchange'.http.res.status = 429
              /\ appState' = "ERROR"
              /\ IsRateLimit(errorMsg'))]_vars

\* C10 (as claimed): when the upstream returns empty or non-JSON text, the
\* proxy answers 500 (never 200, never 429) and the UI ends in Error with
\* the generic copy, never in Success and never with the rate-limit copy.
C10_BadTextIsGenericError ==
    [][(/\ Settles
        /\ exchange'.called /\ ~exchange'.upstream.throws
        /\ ~IsJson(exchange'.upstream.text))
          => (/\ exchange'.http.res.status = 500
              /\ appState' = "ERROR"
              /\ ~IsRateLimit(errorMsg'))]_vars

----------------------------------------------------------------------------
(* Claims about the result and the error categories *)

\* the AnalysisResult shape of types.ts
AnalysisShape == Obj(ResultKeys)

\* C11 (as claimed): every 200 response body of the proxy has exactly the
\* AnalysisResult shape (detectedTextSummary, possibleCauses,
\* preventionStrategies, handoverNote), whatever JSON text the upstream
\* returned.
C11_BodyHasResultShape ==
    (pc = "responded" /\ res.status = 200 /\ req.method = "POST")
        => res.value = AnalysisShape

\* C12 (as claimed): an HTTP 404 from the endpoint is surfaced as the
\* EndpointMissing category: the UI ends in Error with the connection hints
\* (isConnectionError holds of the message the client produced), which tell
\* the local-server case from the deployed-proxy case.
C12_NotFoundIsEndpointMissing ==
    [][(/\ Settles
        /\ ~exchange'.http.rejected
        /\ exchange'.http.res.status = 404)
          => (appState' = "ERROR" /\ IsConnectionError(errorMsg'))]_vars

----------------------------------------------------------------------------
(* Claims about methods and preflight, checked under SpecProxy *)

\* C13 (as claimed): every request whose method is neither OPTIONS nor POST
\* is answered with 405, and no upstream call is made for it.
C13_OtherMethodsAre405 ==
    (pc # "idle" /\ req.method \notin {"OPTIONS", "POST"})
        => /\ pc = "responded"
           /\ res.status = 405
           /\ upstreamCalls = 0

\* the preflight answer: no body, the wildcard origin, no upstream call
PreflightAnswered ==
    /\ pc = "responded"
    /\ res.body = Undefined
    /\ <<"Access-Control-Allow-Origin", "*">> \in resHeaders
    /\ upstreamCalls = 0

----------------------------------------------------------------------------
(* Claims about the client, checked under Spec *)

\* the exchange that settled is a failure for the client: a transport error,
\* a status outside 2xx, or a body that is no JSON
FailedExchange(x) ==
    \/ x.http.rejected
    \/ ~ResponseOk(x.http.res)
    \/ x.http.res.body = Undefined

----------------------------------------------------------------------------
(* Claims about image normalisation, checked under SpecImage *)

LongerEdge(img) == IF img.w > img.h THEN img.w ELSE img.h

\* the maximum configured in the variant (the pass-through variant
\* configures none: the cap of the single-image build is taken)
MaxEdge(v) == IF v = "multi" THEN MAX_SIZE ELSE MAX_WIDTH

\* C16 (as claimed): for every source with positive dimensions, the longer
\* edge of the image handed on is at most the configured maximum, for camera
\* frames and picked files alike.
C16_LongerEdgeCapped ==
    output # NoImage => LongerEdge(output) <= MaxEdge(variant)

\* C17: no upscaling: a source with both dimensions at or below the
\* configured maximum is handed on with its dimensions unchanged.
C17_NeverUpscaled ==
    (output # NoImage /\ LongerEdge(source) <= MaxEdge(variant))
        => (output.w = source.w /\ output.h = source.h)

C17_Witness ==
    /\ variant = "multi" /\ source.kind = "file"
    /\ source.w = 1024 /\ source.h = 640
    /\ output.w = 1024 /\ output.h = 640

Abs(n) == IF n < 0 THEN -n ELSE n

\* the image was scaled down
ScaledDown == output # NoImage /\ (output.w # source.w \/ output.h # source.h)

\* C18: a source that is scaled down keeps its aspect ratio within rounding:
\* |w'*h - h'*w| <= max(w, h); the longer edge becomes the maximum and no
\* edge grows (one factor, maximum / longer edge, for both dimensions).
C18_AspectRatioKept ==
    ScaledDown
        => /\ Abs(output.w * source.h - output.h * source.w) <= LongerEdge(source)
           /\ LongerEdge(source) > MaxEdge(variant)
           /\ LongerEdge(output) = MaxEdge(variant)
           /\ (source.w > source.h) => output.w = MaxEdge(variant)
           /\ (source.h > source.w) => output.h = MaxEdge(variant)
           /\ output.w <= source.w /\ output.h <= source.h

C18_Witness ==
    /\ variant = "camera" /\ source.kind = "frame"
    /\ source.w = 1790 /\ source.h = 537
    /\ output.w = 1600 /\ output.h = 479

\* C19: an image captured from the live camera while the facing mode is
\* 'user' is encoded mirrored, and one captured while the facing mode is
\* 'environment' is encoded unmirrored.
C19_MirroredIffUserFacing ==
    (source.kind = "frame" /\ output # NoImage)
        => (output.mirrored <=> source.facing = "user")

C19_Witness ==
    /\ variant = "camera" /\ source.kind = "frame" /\ source.facing = "user"
    /\ output.mirrored

----------------------------------------------------------------------------
(* Claims about the staging list of the multi-image variant, under Spec *)

\* list without its entry at index i, entry by entry
WithoutEntry(list, i) ==
    [j \in 1..(Len(list) - 1) |-> IF j < i THEN list[j] ELSE list[j + 1]]

\* list is the beginning of longer
IsPrefix(list, longer) ==
    /\ Len(list) <= Len(longer)
    /\ \A j \in 1..Len(list) : longer[j] = list[j]

----------------------------------------------------------------------------
(* Claims about failures in the capture component, checked under Spec *)

\* the file-picker control of the mounted CameraInput can be used:
\* triggerSelect / triggerFileSelect and the disabled attribute of the button
FilePickerEnabled ==
    /\ Mounted /\ ~isCameraOpen
    /\ variant \in {"compress", "camera"} => ~isProcessing

\* the cause of a failed camera acquisition, as the user would name it
CauseOf(err, secureOrigin) ==
    IF err = "NotAllowedError" THEN "permission denied"
    ELSE IF ~secureOrigin THEN "insecure context"
    ELSE "other"

\* what the variant says when acquisition fails for a cause
AlertsOfCause(v, cause) ==
    IF cause = "unsupported browser"
    THEN { IF v = "multi" THEN MultiCameraAlert ELSE UnsupportedAlert }
    ELSE { CameraErrorAlert(v, err, sec) :
             <<err, sec>> \in { p \in GumErrors \X BOOLEAN : CauseOf(p[1], p[2]) = cause } }

CameraFailureCauses ==
    {"permission denied", "insecure context", "unsupported browser", "other"}

\* the message on screen is one the variant gives for no other cause
SpecificTo(cause) ==
    /\ alertMsg' \in AlertsOfCause(variant, cause)
    /\ \A other \in CameraFailureCauses \ {cause} :
         alertMsg' \notin AlertsOfCause(variant, other)

\* the component is in the selection view without a stream, and a file can
\* be picked
LeftAtFilePicker ==
    /\ streamRef' = 0 /\ ~isCameraOpen'
    /\ FilePickerEnabled'
    /\ appState' = appState

\* C21: whenever camera acquisition fails (permission denied, insecure
\* context, unsupported browser, other) in the mounted capture component, the
\* component shows a message specific to that cause, holds no stream, and is
\* in the selection view with the file picker enabled; appState is unchanged.
C21_CameraFailureHandled ==
    [][ /\ \A i \in 1..Len(gums), err \in GumErrors, sec \in BOOLEAN :
             (GumRejected(i, err, sec) /\ ~gums[i].stale)
                => (SpecificTo(CauseOf(err, sec)) /\ LeftAtFilePicker)
        /\ (StartCamera /\ ~hasMediaDevices)
             => (SpecificTo("unsupported browser") /\ LeftAtFilePicker) ]_vars

\* C22: in a multi-file selection of the multi-image component, when the read
\* or the decode of one file fails, the images of the other files of the
\* selection are still added to the staging list, or the selection aborts
\* with a visible error; the images staged before are unchanged.
C22_FailureAffectsOneFile ==
    [][ \A i \in 1..Len(reads) :
          (variant = "multi" /\ Mounted /\ ~reads[i].stale /\ FileReadFails(i))
             => /\ IsPrefix(capturedImages, capturedImages')
                /\ \/ Len(capturedImages') = Len(capturedImages) + reads[i].files - 1
                   \/ alertMsg' # NoAlert ]_vars

\* the camera button of the selection view can be used
CameraButtonEnabled ==
    /\ Mounted /\ HasCamera(variant) /\ ~isCameraOpen
    /\ variant = "camera" => ~isProcessing

\* a button that calls handleReset is on screen: the retry button of the
\* Error view or the button at the end of a rendered AnalysisResult
ResetEnabled ==
    /\ ~crashed
    /\ appState = "ERROR" \/ (appState = "SUCCESS" /\ Truthy(analysis))

\* some control of the page responds to the user
UserCanAct ==
    \/ ResetEnabled
    \/ FilePickerEnabled
    \/ CameraButtonEnabled
    \/ Mounted /\ isCameraOpen

\* no request, file read or camera acquisition is pending: the page stays as
\* it is until the user acts
Quiescent == inflight = <<>> /\ reads = <<>> /\ gums = <<>>

\* C23: the UI has no dead end: whenever nothing is pending any more (after
\* a rejected request, an empty or unrenderable result, a camera failure, a
\* file read or decode failure), the UI is in Idle, or in Error or a rendered
\* result, with an enabled input or retry control, so a new submission is
\* possible without reloading the application.
C23_NoDeadEnd == Quiescent => UserCanAct

----------------------------------------------------------------------------
(* Claims about the result view and the App state, checked under Spec *)

\* AnalysisResult.tsx:87-152: the fields of analysis the render reads
FieldsShown == {"handoverNote", "possibleCauses", "preventionStrategies"}

\* the fields of the result that are on screen
RenderedFields(v, state, a, image) ==
    IF state = "SUCCESS" /\ Truthy(a) /\ ~RenderThrows(v, state, a, image)
    THEN FieldsShown \cap a.keys
    ELSE {}

\* C24: whenever the UI is in Success with a valid AnalysisResult, the
\* rendered view contains all four result fields: detectedTextSummary,
\* possibleCauses, preventionStrategies and handoverNote.
C24_AllFieldsRendered ==
    (appState = "SUCCESS" /\ analysis = AnalysisShape)
       => ResultKeys \subseteq RenderedFields(variant, appState, analysis, currentImage)

UserAction ==
    \/ HandleFileChange
    \/ HandleFiles
    \/ \E i \in 1..Len(capturedImages) : RemoveImage(i)
    \/ Analyze
    \/ StartCamera
    \/ StopCamera
    \/ ToggleCamera
    \/ HandleCapture
    \/ HandleCaptureMulti
    \/ HandleReset

\* C26: when every issued HTTP request eventually settles, every Analyzing
\* state is eventually followed by Success or Error; and while in Analyzing
\* no user action is enabled, so none changes appState, and a request leaves
\* the requests in flight only by settling.
C26_AnalyzingSettles ==
    /\ (appState = "ANALYZING") ~> (appState \in {"SUCCESS", "ERROR"})
    /\ [][ appState = "ANALYZING"
             => /\ ~UserAction
                /\ Len(inflight') < Len(inflight)
                     => \E i \in 1..Len(inflight) : RequestSettles(i) ]_vars

\* the second analysis of a session has been waited for and has failed
C26_Witness ==
    /\ appState = "ERROR" /\ submissions = 2 /\ inflight = <<>>
    /\ exchange # NoExchange

----------------------------------------------------------------------------
(* Further claims about images and the staging list *)

\* C27: an image chosen through the file picker is never mirrored, whatever
\* camera actions preceded it (open the camera, toggle to the front lens,
\* cancel, then pick a file).
C27_FileNeverMirrored == source.kind = "file" => ~output.mirrored

\* C28: the multi-image staging list never contains an empty payload: every
\* entry of capturedImages is a non-empty base64 string, also after a
\* capture taken before the video element has a frame or when no canvas
\* context is available.
C28_NoEmptyStaged ==
    \A i \in 1..Len(capturedImages) : capturedImages[i] # <<>>

\* a file selection of the mounted multi-image component is still being
\* read or decoded
BatchPending ==
    variant = "multi" /\ Mounted /\ \E i \in 1..Len(reads) : ~reads[i].stale

\* C29: in the multi-image component isProcessing is true in every state in
\* which at least one file-selection batch is still being decoded, also when
\* a second selection is started before the first batch has finished; so
\* the Analyze button cannot submit while images are pending.
C29_ProcessingWhilePending ==
    BatchPending => isProcessing

----------------------------------------------------------------------------
(* The order of the handler's checks, checked under SpecProxy *)

\* no variable the deployed handler reads holds a usable key
CredentialMissing ==
    /\ ~Truthy(env.API_KEY)
    /\ ~Truthy(env.VITE_API_KEY)
    /\ proxyKind # "express" => ~Truthy(env.NEXT_PUBLIC_API_KEY)

\* the request in hand is answered by the first check that fails, in the
\* order preflight, method, payload presence, credential presence, with the
\* given statuses for the first two; when none fails the upstream is called
AnsweredInOrder(preflightStatus, methodStatus) ==
    LET answered(status) ==
            pc = "responded" /\ res.status = status /\ upstreamCalls = 0
    IN  IF req.method = "OPTIONS" THEN answered(preflightStatus)
        ELSE IF req.method # "POST" THEN answered(methodStatus)
        ELSE IF ~HasPayload(proxyKind, req.body) THEN answered(400)
        ELSE IF CredentialMissing
        THEN answered(500) /\ Includes(res.error, MK_API_KEY)
        ELSE upstreamCalls = 1

====
